---- MODULE Spec2Model ----
(***************************************************************************)
(* Model of the fingerprint HAL coordinator (class Fingerprint):           *)
(* backend discovery in the constructor, device teardown in the            *)
(* destructor, the single active-session slot behind createSession, the    *)
(* static notification entry point, and the sensor descriptor.             *)
(***************************************************************************)
EXTENDS Integers, Sequences, FiniteSets, TLC

\* ---------------------------------------------------------------- bounds
MaxCalls == 2          \* createSession calls made in one run
MaxNotify == 1         \* backend events raised in one run

\* ------------------------------------------------------ program constants
NumModules == 7                 \* entries of kModules
SENSOR_ID == 0
MAX_ENROLLMENTS_PER_USER == 7

Coords == {1, 2}                \* coordinator objects
IpcThreads == {1, 2}            \* IPC dispatch threads
Calls == 1..MaxCalls            \* a call's id also names its callback and its Session
Payloads == {"FINGERPRINT_ACQUIRED", "FINGERPRINT_AUTHENTICATED"}   \* fingerprint_msg_t values
CfgVals == {0 - 1, 0, 1}        \* values of UDFPS_LOCATION_X, UDFPS_LOCATION_Y, UDFPS_RADIUS
NotifyThreads == {1}            \* backend notification threads

NULL == 0                       \* nullptr, for every pointer-valued variable

\* kModules, in declared order
kModules == <<"fpc", "fpc_fod", "goodix", "goodix_fod", "goodix_fod6", "silead", "syna">>

VARIABLES
    hal,            \* per class of kModules: what openHal meets for it on this device
    build,          \* compile-time configuration: USES_UDFPS_SENSOR, UDFPS_LOCATION_X/Y, UDFPS_RADIUS
    coordPool,      \* coordinators this process constructs
    ipcPool,        \* IPC dispatch threads this process runs
    sInstance,      \* static Fingerprint* sInstance
    cstate,         \* per coordinator: "none", "ctor", "ctor_end", "alive", "dead"
    mDevice,        \* per coordinator: NULL or the index in kModules of the opened backend
    mSession,       \* per coordinator: NULL or the Session held in the slot
    mUdfpsHandlerFactory, \* per coordinator: non-null?
    mUdfpsHandler,  \* per coordinator: non-null?
    tried,          \* per coordinator: the constructor's loop so far, <<class_name, outcome>>
    devOpen,        \* per coordinator: backend devices opened by it and not closed
    sinks,          \* per coordinator: backend devices holding Fingerprint::notify as their sink
    closeLog,       \* per coordinator: the statuses returned by common.close
    ctorSeq,        \* the coordinators in the order their constructors began
    sess,           \* per Session: "none", "open", "closed"
    owner,          \* per Session: the coordinator that made it
    sdev,           \* per Session: the device handle it was bound to
    linked,         \* per Session: the callbacks whose death is linked to it
    cbDead,         \* per callback: its remote side is gone
    received,       \* per Session: the payloads handed to Session::notify, in order
    ipc,            \* per IPC thread: pc ("idle", "make", "out", "link", "aborted"), coordinator, call, out
    calls,          \* createSession calls started so far
    returned,       \* per call: NULL, or the Session its caller was handed
    nt,             \* per notification thread: pc, thisPtr, msg, inv
    nInv,           \* notifications raised so far
    invLog,         \* per notification: what it was given, what it saw at entry and at the check, what it did
    propsOut,       \* the vector last written by getSensorProps (<<>> before the first call)
    aborted,        \* a CHECK failed: the process is gone
    crashed         \* an invalid access took the process down

cfgVars == <<hal, build, coordPool, ipcPool>>
coordVars == <<sInstance, cstate, mDevice, mUdfpsHandlerFactory, mUdfpsHandler,
               tried, devOpen, sinks, closeLog, ctorSeq>>
sessVars == <<sess, owner, sdev, linked, cbDead>>
ipcVars == <<ipc, calls, returned>>
notifyVars == <<nt, nInv, invLog, received>>
procVars == <<aborted, crashed>>
vars == <<hal, build, coordPool, ipcPool, sInstance, cstate, mDevice, mSession,
          mUdfpsHandlerFactory, mUdfpsHandler, tried, devOpen, sinks, closeLog, ctorSeq,
          sess, owner, sdev, linked, cbDead, received, ipc, calls, returned, nt, nInv,
          invLog, propsOut, aborted, crashed>>

Running == ~aborted /\ ~crashed

\* ------------------------------------------------------------ build kinds
\* Without USES_UDFPS_SENSOR the three coordinates keep their initial -1.
PlainBuild == [udfps |-> FALSE, x |-> 0 - 1, y |-> 0 - 1, r |-> 0 - 1]
UdfpsBuilds == {[udfps |-> TRUE, x |-> a, y |-> b, r |-> c] : a \in CfgVals, b \in CfgVals, c \in CfgVals}

\* What one call of openHal can meet: module resolution fails (lines 104-118),
\* open fails (121), set_notify fails (127), or all three succeed.
Outcomes == {"resolve_fail", "open_fail", "notify_fail", "ok"}

\* The devices: every assignment of an outcome to each class.
HalAll == [1..NumModules -> Outcomes]
\* The devices that ship at most one backend library, of class "fpc" or
\* "goodix": every other class fails to resolve.
Shipped == {1, 3}
HalSome ==
    {h \in HalAll : \E j \in Shipped : \A i \in (1..NumModules) \ {j} : h[i] = "resolve_fail"}

IdleIpc == [pc |-> "idle", c |-> NULL, call |-> NULL, out |-> NULL]
IdleNt == [pc |-> "idle", thisPtr |-> NULL, msg |-> "", inv |-> NULL]

InitWith(h, b, cp, ip) ==
    /\ hal \in h
    /\ build \in b
    /\ coordPool = cp
    /\ ipcPool = ip
    /\ sInstance = NULL
    /\ cstate = [c \in Coords |-> "none"]
    /\ mDevice = [c \in Coords |-> NULL]
    /\ mSession = [c \in Coords |-> NULL]
    /\ mUdfpsHandlerFactory = [c \in Coords |-> FALSE]
    /\ mUdfpsHandler = [c \in Coords |-> FALSE]
    /\ tried = [c \in Coords |-> <<>>]
    /\ devOpen = [c \in Coords |-> {}]
    /\ sinks = [c \in Coords |-> {}]
    /\ closeLog = [c \in Coords |-> <<>>]
    /\ ctorSeq = <<>>
    /\ sess = [s \in Calls |-> "none"]
    /\ owner = [s \in Calls |-> NULL]
    /\ sdev = [s \in Calls |-> NULL]
    /\ linked = [s \in Calls |-> {}]
    /\ cbDead = [s \in Calls |-> FALSE]
    /\ received = [s \in Calls |-> <<>>]
    /\ ipc = [t \in IpcThreads |-> IdleIpc]
    /\ calls = 0
    /\ returned = [k \in Calls |-> NULL]
    /\ nt = [n \in NotifyThreads |-> IdleNt]
    /\ nInv = 0
    /\ invLog = <<>>
    /\ propsOut = <<>>
    /\ aborted = FALSE
    /\ crashed = FALSE

\* One coordinator per process, calls serialised by the IPC framework.
Init == InitWith(HalSome, {PlainBuild}, {1}, {1})

\* ------------------------------------------------------------- discovery
\* openHal without the test of set_notify's status.
openHalNoRegisterTest(i, o) ==
    [dev |-> IF o \in {"notify_fail", "ok"} THEN i ELSE NULL,
     opened |-> o \in {"notify_fail", "ok"},
     sink |-> o = "ok"]

\* openHal(class_name): the handle returned, whether a device was opened, and
\* whether the sink was registered, for class index i meeting outcome o.
openHal(i, o) ==
    [dev |-> IF o = "ok" THEN i ELSE NULL,
     opened |-> o \in {"notify_fail", "ok"},
     sink |-> o = "ok"]

\* The constructor that leaves sInstance as it finds it.
InstanceNotSet(c) == sInstance

\* The constructor that sets sInstance only when none is set yet.
InstanceFirstWins(c) == IF sInstance = NULL THEN c ELSE sInstance

\* Line 65: sInstance = this.
InstanceAfterCtor(c) == c

\* Fingerprint::Fingerprint(), first statement: the members are initialised
\* and sInstance is set.
CtorBegin(c) ==
    /\ Running
    /\ c \in coordPool
    /\ cstate[c] = "none"
    /\ \A d \in Coords : cstate[d] \notin {"ctor", "ctor_end"}
    /\ cstate' = [cstate EXCEPT ![c] = "ctor"]
    /\ sInstance' = InstanceAfterCtor(c)
    /\ ctorSeq' = Append(ctorSeq, c)
    /\ mDevice' = [mDevice EXCEPT ![c] = NULL]
    /\ UNCHANGED <<mSession, mUdfpsHandlerFactory, mUdfpsHandler, tried, devOpen, sinks, closeLog>>
    /\ UNCHANGED <<cfgVars, sessVars, ipcVars, notifyVars, procVars, propsOut>>

\* The class the loop visits after `done` iterations.
NextClass(done) == done + 1

\* The loop without its break: every class of kModules is tried.
LoopExitNoBreak(dev, t) == Len(t) = NumModules

\* One iteration of the loop over kModules: mDevice = openHal(class_name);
\* continue on null, break otherwise.
LoopExit(dev, t) == dev # NULL \/ Len(t) = NumModules

CtorTry(c) ==
    /\ Running
    /\ cstate[c] = "ctor"
    /\ ~LoopExit(mDevice[c], tried[c])
    /\ LET i == NextClass(Len(tried[c]))
           o == hal[i]
           h == openHal(i, o)
       IN /\ tried' = [tried EXCEPT ![c] = Append(@, <<kModules[i], o>>)]
          /\ mDevice' = [mDevice EXCEPT ![c] = h.dev]
          /\ devOpen' = [devOpen EXCEPT ![c] = IF h.opened THEN @ \cup {i} ELSE @]
          /\ sinks' = [sinks EXCEPT ![c] = IF h.sink THEN @ \cup {i} ELSE @]
    /\ UNCHANGED <<sInstance, cstate, mSession, mUdfpsHandlerFactory, mUdfpsHandler, closeLog, ctorSeq>>
    /\ UNCHANGED <<cfgVars, sessVars, ipcVars, notifyVars, procVars, propsOut>>

\* The loop is left (break, or kModules exhausted); under USES_UDFPS_SENSOR the
\* handler factory is fetched and the handler created and initialised.
CtorLoopEnd(c) ==
    /\ Running
    /\ cstate[c] = "ctor"
    /\ LoopExit(mDevice[c], tried[c])
    /\ IF build.udfps
       THEN \E f \in BOOLEAN, h \in BOOLEAN :
              /\ mUdfpsHandlerFactory' = [mUdfpsHandlerFactory EXCEPT ![c] = f]
              /\ mUdfpsHandler' = [mUdfpsHandler EXCEPT ![c] = f /\ h]
       ELSE UNCHANGED <<mUdfpsHandlerFactory, mUdfpsHandler>>
    /\ cstate' = [cstate EXCEPT ![c] = "ctor_end"]
    /\ UNCHANGED <<sInstance, mDevice, mSession, tried, devOpen, sinks, closeLog, ctorSeq>>
    /\ UNCHANGED <<cfgVars, sessVars, ipcVars, notifyVars, procVars, propsOut>>

\* The constructor returns; its loop state is gone.
CtorReturn(c) ==
    /\ Running
    /\ cstate[c] = "ctor_end"
    /\ cstate' = [cstate EXCEPT ![c] = "alive"]
    /\ tried' = [tried EXCEPT ![c] = <<>>]
    /\ UNCHANGED <<sInstance, mDevice, mSession, mUdfpsHandlerFactory, mUdfpsHandler, devOpen, sinks, closeLog, ctorSeq>>
    /\ UNCHANGED <<cfgVars, sessVars, ipcVars, notifyVars, procVars, propsOut>>

\* --------------------------------------------------------------- teardown
\* Statuses common.close can return.
CloseStatuses == {0, 0 - 1}

\* Fingerprint::~Fingerprint(): the value of mDevice after the body, given the
\* status `err` that common.close returned (not called when mDevice is null).
DeviceAfterClose(dev, err) == IF dev = NULL \/ err # 0 THEN dev ELSE NULL

\* The destructor that clears sInstance when it designates the object.
InstanceClearedOnDestroy(c) == IF sInstance = c THEN NULL ELSE sInstance

\* Lines 135-150 never assign sInstance.
InstanceAfterDestroy(c) == sInstance

\* No IPC call is running on c.
NoCallOn(c) == \A t \in IpcThreads : ipc[t].pc = "idle" \/ ipc[t].c # c

\* The whole destructor body: the handler, if any, is given back to its factory
\* (the pointer members keep their values); a null mDevice ends it; otherwise
\* common.close is called once and mDevice is reset only on status 0.
Destroy(c) ==
    /\ Running
    /\ cstate[c] = "alive"
    /\ NoCallOn(c)
    /\ cstate' = [cstate EXCEPT ![c] = "dead"]
    /\ IF mDevice[c] = NULL
       THEN UNCHANGED <<mDevice, devOpen, sinks, closeLog>>
       ELSE \E err \in CloseStatuses :
              /\ closeLog' = [closeLog EXCEPT ![c] = Append(@, err)]
              /\ mDevice' = [mDevice EXCEPT ![c] = DeviceAfterClose(@, err)]
              /\ devOpen' = [devOpen EXCEPT ![c] = IF err = 0 THEN @ \ {mDevice[c]} ELSE @]
              /\ sinks' = [sinks EXCEPT ![c] = IF err = 0 THEN @ \ {mDevice[c]} ELSE @]
    /\ sInstance' = InstanceAfterDestroy(c)
    /\ UNCHANGED <<mSession, mUdfpsHandlerFactory, mUdfpsHandler, tried, ctorSeq>>
    /\ UNCHANGED <<cfgVars, sessVars, ipcVars, notifyVars, procVars, propsOut>>

\* ---------------------------------------------------------------- Session
\* Session::isClosed()
isClosed(s) == sess[s] = "closed"

\* The Session is closed by its holder (ISession::close).
SessionClose(s) ==
    /\ Running
    /\ sess[s] = "open"
    /\ \E k \in Calls : returned[k] = s
    /\ sess' = [sess EXCEPT ![s] = "closed"]
    /\ UNCHANGED <<owner, sdev, linked, cbDead>>
    /\ UNCHANGED <<cfgVars, coordVars, mSession, ipcVars, notifyVars, procVars, propsOut>>

\* The remote side of callback k goes away.
RemoteDies(k) ==
    /\ Running
    /\ k <= calls
    /\ ~cbDead[k]
    /\ cbDead' = [cbDead EXCEPT ![k] = TRUE]
    /\ UNCHANGED <<sess, owner, sdev, linked>>
    /\ UNCHANGED <<cfgVars, coordVars, mSession, ipcVars, notifyVars, procVars, propsOut>>

\* The death of a linked callback reaches the Session, which closes.
DeathDeliver(s) ==
    /\ Running
    /\ sess[s] = "open"
    /\ \E k \in linked[s] : cbDead[k]
    /\ sess' = [sess EXCEPT ![s] = "closed"]
    /\ UNCHANGED <<owner, sdev, linked, cbDead>>
    /\ UNCHANGED <<cfgVars, coordVars, mSession, ipcVars, notifyVars, procVars, propsOut>>

\* ----------------------------------------------------------- createSession
\* SlotFree that accepts the empty slot only.
SlotFreeEmptyOnly(c) == mSession[c] = NULL

\* SlotFree without the test: any call may store.
SlotFreeUnchecked(c) == TRUE

\* SlotFree with the closed test negated.
SlotFreeNegated(c) == IF mSession[c] = NULL THEN TRUE ELSE ~isClosed(mSession[c])

\* CHECK(mSession == nullptr || mSession->isClosed())
SlotFree(c) == IF mSession[c] = NULL THEN TRUE ELSE isClosed(mSession[c])

\* Line 210: the call enters and CHECK is evaluated; a failed CHECK aborts.
CsCheck(t, c) ==
    /\ Running
    /\ t \in ipcPool
    /\ ipc[t].pc = "idle"
    /\ cstate[c] = "alive"
    /\ calls < MaxCalls
    /\ calls' = calls + 1
    /\ IF SlotFree(c)
       THEN /\ ipc' = [ipc EXCEPT ![t] = [pc |-> "make", c |-> c, call |-> calls + 1, out |-> NULL]]
            /\ UNCHANGED aborted
       ELSE /\ aborted' = TRUE
            /\ ipc' = [ipc EXCEPT ![t] = [pc |-> "aborted", c |-> c, call |-> calls + 1, out |-> NULL]]
    /\ UNCHANGED <<returned, crashed, mSession>>
    /\ UNCHANGED <<cfgVars, coordVars, sessVars, notifyVars, propsOut>>

\* Line 212: the Session is made from mDevice and the callback and stored.
CsMake(t) ==
    /\ Running
    /\ ipc[t].pc = "make"
    /\ LET c == ipc[t].c
           k == ipc[t].call
       IN /\ sess' = [sess EXCEPT ![k] = "open"]
          /\ owner' = [owner EXCEPT ![k] = c]
          /\ sdev' = [sdev EXCEPT ![k] = mDevice[c]]
          /\ mSession' = [mSession EXCEPT ![c] = k]
    /\ ipc' = [ipc EXCEPT ![t].pc = "out"]
    /\ UNCHANGED <<linked, cbDead, calls, returned>>
    /\ UNCHANGED <<cfgVars, coordVars, notifyVars, procVars, propsOut>>

\* Line 213: *out = mSession.
CsOut(t) ==
    /\ Running
    /\ ipc[t].pc = "out"
    /\ ipc' = [ipc EXCEPT ![t].out = mSession[ipc[t].c], ![t].pc = "link"]
    /\ UNCHANGED <<calls, returned, mSession>>
    /\ UNCHANGED <<cfgVars, coordVars, sessVars, notifyVars, procVars, propsOut>>

\* Session::linkToDeath(cb): the death of callback k is linked to Session s.
linkToDeath(lk, s, k) == [lk EXCEPT ![s] = @ \cup {k}]

\* Lines 215-217 without line 215.
LinkedByCallNot(lk, s, k) == lk

\* Line 215: mSession->linkToDeath(cb->asBinder().get()); the slot is read again.
LinkedByCall(lk, s, k) == linkToDeath(lk, s, k)

\* Lines 215-217: mSession->linkToDeath(cb), then the call returns ok.
CsLink(t) ==
    /\ Running
    /\ ipc[t].pc = "link"
    /\ LET s == mSession[ipc[t].c]
           k == ipc[t].call
       IN /\ linked' = LinkedByCall(linked, s, k)
          /\ returned' = [returned EXCEPT ![k] = ipc[t].out]
    /\ ipc' = [ipc EXCEPT ![t] = IdleIpc]
    /\ UNCHANGED <<sess, owner, sdev, cbDead, calls, mSession>>
    /\ UNCHANGED <<cfgVars, coordVars, notifyVars, procVars, propsOut>>

\* ------------------------------------------------------------------ notify
\* A backend that holds the sink can raise an event.
SinkRegistered == \E c \in Coords : sinks[c] # {}

\* The Session an event entering now would be routed to: the one in the slot
\* of the coordinator sInstance designates, if that coordinator is not
\* destroyed and the Session is open; NULL otherwise.
ActiveSession ==
    IF sInstance = NULL \/ cstate[sInstance] = "dead" THEN NULL
    ELSE IF mSession[sInstance] = NULL THEN NULL
    ELSE IF isClosed(mSession[sInstance]) THEN NULL
    ELSE mSession[sInstance]

\* The coordinator whose constructor began last, NULL if none has.
Newest == IF ctorSeq = <<>> THEN NULL ELSE ctorSeq[Len(ctorSeq)]

\* Where that coordinator is in its life.
NewestState == IF Newest = NULL THEN "none" ELSE cstate[Newest]

\* Line 153: Fingerprint* thisPtr = sInstance.
NotifyBegin(n, m) ==
    /\ Running
    /\ nt[n].pc = "idle"
    /\ SinkRegistered
    /\ nInv < MaxNotify
    /\ nInv' = nInv + 1
    /\ nt' = [nt EXCEPT ![n] = [pc |-> "check", thisPtr |-> sInstance, msg |-> m, inv |-> nInv + 1]]
    /\ invLog' = Append(invLog, [msg |-> m, atEntry |-> ActiveSession, via |-> sInstance,
                                 newest |-> Newest, newestState |-> NewestState,
                                 seen |-> NULL, seenOpen |-> FALSE, stale |-> FALSE,
                                 outcome |-> "pending", targetOpen |-> FALSE])
    /\ UNCHANGED <<received, mSession>>
    /\ UNCHANGED <<cfgVars, coordVars, sessVars, ipcVars, procVars, propsOut>>

\* DropEvent with the isClosed test negated: only a closed Session passes.
DropEventClosedTestNegated(thisPtr) ==
    IF thisPtr = NULL THEN TRUE
    ELSE IF mSession[thisPtr] = NULL THEN TRUE
    ELSE ~isClosed(mSession[thisPtr])

\* DropEvent without the isClosed test.
DropEventNoClosedTest(thisPtr) ==
    IF thisPtr = NULL THEN TRUE ELSE mSession[thisPtr] = NULL

\* The condition of line 154 on a coordinator that exists: TRUE when the
\* event is to be dropped.
DropEvent(thisPtr) ==
    IF thisPtr = NULL THEN TRUE
    ELSE IF mSession[thisPtr] = NULL THEN TRUE
    ELSE isClosed(mSession[thisPtr])

\* Line 154. A thisPtr that designates a destroyed coordinator is read all the
\* same: the read may find the old slot, find nothing, or fault.
NotifyCheck(n) ==
    /\ Running
    /\ nt[n].pc = "check"
    /\ LET p == nt[n].thisPtr
           i == nt[n].inv
           gone == IF p = NULL THEN FALSE ELSE cstate[p] = "dead"
           slot == IF p = NULL THEN NULL ELSE mSession[p]
           open == IF slot = NULL THEN FALSE ELSE sess[slot] = "open"
       IN \/ /\ DropEvent(p)
             /\ nt' = [nt EXCEPT ![n] = IdleNt]
             /\ invLog' = [invLog EXCEPT ![i].outcome = "dropped", ![i].stale = gone,
                                         ![i].seen = slot, ![i].seenOpen = open]
             /\ UNCHANGED crashed
          \/ /\ ~DropEvent(p)
             /\ nt' = [nt EXCEPT ![n].pc = "forward"]
             /\ invLog' = [invLog EXCEPT ![i].stale = gone, ![i].seen = slot, ![i].seenOpen = open]
             /\ UNCHANGED crashed
          \/ /\ gone
             /\ ~DropEvent(p)
             /\ nt' = [nt EXCEPT ![n] = IdleNt]
             /\ invLog' = [invLog EXCEPT ![i].outcome = "dropped", ![i].stale = TRUE]
             /\ UNCHANGED crashed
          \/ /\ gone
             /\ crashed' = TRUE
             /\ nt' = [nt EXCEPT ![n] = IdleNt]
             /\ invLog' = [invLog EXCEPT ![i].outcome = "crashed", ![i].stale = TRUE]
    /\ UNCHANGED <<nInv, received, aborted, mSession>>
    /\ UNCHANGED <<cfgVars, coordVars, sessVars, ipcVars, propsOut>>

\* Session::notify(msg): the payload joins what the Session has been handed.
SessionNotify(rcv, s, i, m) == [rcv EXCEPT ![s] = Append(@, <<i, m>>)]

\* Forwarded with a payload of its own making.
ForwardedFixed(p, m) == [to |-> mSession[p], msg |-> "FINGERPRINT_ACQUIRED"]

\* Line 158: thisPtr->mSession->notify(msg); the slot is read again, and the
\* payload is passed on as it came.
Forwarded(p, m) == [to |-> mSession[p], msg |-> m]

NotifyForward(n) ==
    /\ Running
    /\ nt[n].pc = "forward"
    /\ LET p == nt[n].thisPtr
           i == nt[n].inv
           f == Forwarded(p, nt[n].msg)
           s == f.to
           gone == cstate[p] = "dead"
       IN \/ /\ received' = SessionNotify(received, s, i, f.msg)
             /\ invLog' = [invLog EXCEPT ![i].outcome = "forwarded",
                                         ![i].targetOpen = ~isClosed(s),
                                         ![i].stale = @ \/ gone]
             /\ UNCHANGED crashed
          \/ /\ gone
             /\ crashed' = TRUE
             /\ invLog' = [invLog EXCEPT ![i].outcome = "crashed", ![i].stale = TRUE]
             /\ UNCHANGED received
    /\ nt' = [nt EXCEPT ![n] = IdleNt]
    /\ UNCHANGED <<nInv, aborted, mSession>>
    /\ UNCHANGED <<cfgVars, coordVars, sessVars, ipcVars, propsOut>>

\* ---------------------------------------------------------- getSensorProps
\* The members the constructor's initialiser list fixes.
mSensorType(b) == IF b.udfps THEN "UNDER_DISPLAY_OPTICAL" ELSE "UNKNOWN"
mMaxEnrollmentsPerUser == MAX_ENROLLMENTS_PER_USER
mSupportsGestures == FALSE

\* std::vector<common::ComponentInfo> componentInfo
ComponentInfo ==
    << [componentId |-> "fingerprintSensor", hardwareVersion |-> "vendor/model/revision",
        firmwareVersion |-> "1.01", serialNumber |-> "00000001", softwareVersion |-> ""],
       [componentId |-> "matchingAlgorithm", hardwareVersion |-> "",
        firmwareVersion |-> "", serialNumber |-> "", softwareVersion |-> "vendor/version/revision"] >>

\* CommonProps with the hardware component alone.
CommonPropsHwOnly ==
    [sensorId |-> SENSOR_ID, sensorStrength |-> "STRONG",
     maxEnrollmentsPerUser |-> mMaxEnrollmentsPerUser, componentInfo |-> <<ComponentInfo[1]>>]

\* common::CommonProps commonProps
CommonProps ==
    [sensorId |-> SENSOR_ID, sensorStrength |-> "STRONG",
     maxEnrollmentsPerUser |-> mMaxEnrollmentsPerUser, componentInfo |-> ComponentInfo]

\* SensorLocation sensorLocation; as default-constructed
DefaultSensorLocation == [sensorLocationX |-> 0, sensorLocationY |-> 0, sensorRadius |-> 0]

\* LocationValid without the radius.
LocationValidNoRadius(x, y, r) == x >= 0 /\ y >= 0

\* Lines 172-187: the location is filled in only from three non-negative values.
LocationValid(x, y, r) == x >= 0 /\ y >= 0 /\ r >= 0

SensorLocationOf(b) ==
    IF LocationValid(b.x, b.y, b.r)
    THEN [sensorLocationX |-> b.x, sensorLocationY |-> b.y, sensorRadius |-> b.r]
    ELSE DefaultSensorLocation

\* Lines 193-202: the vector written to *out.
SensorPropsOf(b) ==
    << [commonProps |-> CommonProps,
        sensorType |-> mSensorType(b),
        sensorLocations |-> <<SensorLocationOf(b)>>,
        supportsNavigationGestures |-> mSupportsGestures,
        supportsDetectInteraction |-> FALSE,
        halHandlesDisplayTouches |-> FALSE,
        halControlsIllumination |-> FALSE,
        touchDetectionParameters |-> "nullopt"] >>

\* getSensorProps that also empties the session slot.
GetSensorPropsResetsSlot(t, c) ==
    /\ Running
    /\ t \in ipcPool
    /\ ipc[t].pc = "idle"
    /\ cstate[c] = "alive"
    /\ propsOut' = SensorPropsOf(build)
    /\ mSession' = [mSession EXCEPT ![c] = NULL]
    /\ UNCHANGED <<cfgVars, coordVars, sessVars, ipcVars, notifyVars, procVars>>

\* Lines 161-205: only *out is written.
GetSensorProps(t, c) ==
    /\ Running
    /\ t \in ipcPool
    /\ ipc[t].pc = "idle"
    /\ cstate[c] = "alive"
    /\ propsOut' = SensorPropsOf(build)
    /\ UNCHANGED <<cfgVars, coordVars, mSession, sessVars, ipcVars, notifyVars, procVars>>

\* ------------------------------------------------------------------- Next
Next ==
    \/ \E c \in Coords : CtorBegin(c)
    \/ \E c \in Coords : CtorTry(c)
    \/ \E c \in Coords : CtorLoopEnd(c)
    \/ \E c \in Coords : CtorReturn(c)
    \/ \E c \in Coords : Destroy(c)
    \/ \E s \in Calls : SessionClose(s)
    \/ \E k \in Calls : RemoteDies(k)
    \/ \E s \in Calls : DeathDeliver(s)
    \/ \E t \in IpcThreads, c \in Coords : CsCheck(t, c)
    \/ \E t \in IpcThreads : CsMake(t)
    \/ \E t \in IpcThreads : CsOut(t)
    \/ \E t \in IpcThreads : CsLink(t)
    \/ \E n \in NotifyThreads, m \in Payloads : NotifyBegin(n, m)
    \/ \E n \in NotifyThreads : NotifyCheck(n)
    \/ \E n \in NotifyThreads : NotifyForward(n)
    \/ \E t \in IpcThreads, c \in Coords : GetSensorProps(t, c)

Spec == Init /\ [][Next]_vars

\* Two IPC dispatch threads: createSession calls that overlap.
InitConc == InitWith(HalSome, {PlainBuild}, {1}, {1, 2})
SpecConc == InitConc /\ [][Next]_vars

\* Two coordinator objects in the process: both can be constructed, one after
\* the other or while the other is alive.
InitTwo == InitWith(HalSome, {PlainBuild}, {1, 2}, {1})
NextTwo ==
    \/ \E c \in Coords : CtorBegin(c)
    \/ \E c \in Coords : CtorTry(c)
    \/ \E c \in Coords : CtorLoopEnd(c)
    \/ \E c \in Coords : CtorReturn(c)
    \/ \E c \in Coords : Destroy(c)
    \/ \E s \in Calls : SessionClose(s)
    \/ \E t \in IpcThreads, c \in Coords : CsCheck(t, c)
    \/ \E t \in IpcThreads : CsMake(t)
    \/ \E t \in IpcThreads : CsOut(t)
    \/ \E t \in IpcThreads : CsLink(t)
    \/ \E n \in NotifyThreads, m \in Payloads : NotifyBegin(n, m)
    \/ \E n \in NotifyThreads : NotifyCheck(n)
    \/ \E n \in NotifyThreads : NotifyForward(n)
SpecTwo == InitTwo /\ [][NextTwo]_vars

\* Death of the remote side as the only way a Session closes: no client is
\* left to call close. A createSession call that has stored its Session runs
\* on to its return, and the death of a linked callback is delivered in the
\* end.
NextLive ==
    \/ \E c \in Coords : CtorBegin(c)
    \/ \E c \in Coords : CtorTry(c)
    \/ \E c \in Coords : CtorLoopEnd(c)
    \/ \E c \in Coords : CtorReturn(c)
    \/ \E c \in Coords : Destroy(c)
    \/ \E k \in Calls : RemoteDies(k)
    \/ \E s \in Calls : DeathDeliver(s)
    \/ \E t \in IpcThreads, c \in Coords : CsCheck(t, c)
    \/ \E t \in IpcThreads : CsMake(t)
    \/ \E t \in IpcThreads : CsOut(t)
    \/ \E t \in IpcThreads : CsLink(t)
    \/ \E n \in NotifyThreads, m \in Payloads : NotifyBegin(n, m)
    \/ \E n \in NotifyThreads : NotifyCheck(n)
    \/ \E n \in NotifyThreads : NotifyForward(n)
    \/ \E t \in IpcThreads, c \in Coords : GetSensorProps(t, c)
Fairness ==
    /\ \A s \in Calls : WF_vars(DeathDeliver(s))
    /\ \A t \in IpcThreads : WF_vars(CsOut(t)) /\ WF_vars(CsLink(t))
SpecLive == Init /\ [][NextLive]_vars /\ Fairness

\* Discovery and teardown alone, on every device.
InitDiscover == InitWith(HalAll, {PlainBuild}, {1}, {1})
NextDiscover ==
    \/ \E c \in Coords : CtorBegin(c)
    \/ \E c \in Coords : CtorTry(c)
    \/ \E c \in Coords : CtorLoopEnd(c)
    \/ \E c \in Coords : CtorReturn(c)
    \/ \E c \in Coords : Destroy(c)
SpecDiscover == InitDiscover /\ [][NextDiscover]_vars

\* The IPC calls alone, on every build.
InitProps == InitWith(HalSome, {PlainBuild} \cup UdfpsBuilds, {1}, {1})
NextProps ==
    \/ \E c \in Coords : CtorBegin(c)
    \/ \E c \in Coords : CtorTry(c)
    \/ \E c \in Coords : CtorLoopEnd(c)
    \/ \E c \in Coords : CtorReturn(c)
    \/ \E c \in Coords : Destroy(c)
    \/ \E s \in Calls : SessionClose(s)
    \/ \E t \in IpcThreads, c \in Coords : CsCheck(t, c)
    \/ \E t \in IpcThreads : CsMake(t)
    \/ \E t \in IpcThreads : CsOut(t)
    \/ \E t \in IpcThreads : CsLink(t)
    \/ \E t \in IpcThreads, c \in Coords : GetSensorProps(t, c)
SpecProps == InitProps /\ [][NextProps]_vars

\* ================================================================= claims
OpenSessionsOf(c) == {s \in Calls : sess[s] = "open" /\ owner[s] = c}
SlotOpen(c) == IF mSession[c] = NULL THEN FALSE ELSE sess[mSession[c]] = "open"

\* C1: at most one non-closed Session exists at any time: of the Sessions a
\* coordinator has made, none or one is open, whatever createSession calls,
\* closes and notifications have happened.
C1_AtMostOneOpenSession ==
    \A c \in Coords : Cardinality(OpenSessionsOf(c)) <= 1

\* C1's case: a second Session was made after the first was closed.
C1_Witness ==
    \E c \in Coords : \E s1 \in Calls, s2 \in Calls :
        /\ owner[s1] = c /\ owner[s2] = c
        /\ sess[s1] = "closed" /\ sess[s2] = "open"
        /\ mSession[c] = s2

\* A createSession call on c enters in this step.
Entered(c) ==
    \E t \in IpcThreads : ipc[t].pc = "idle" /\ ipc'[t].pc # "idle" /\ ipc'[t].c = c

\* C2: a createSession call made while the Session in the slot is open aborts,
\* and leaves the first Session untouched: the slot still holds it, no second
\* Session is made, and no death link is attached for the second callback.
C2_SecondCreateAborts ==
    [][\A c \in Coords :
          (Entered(c) /\ SlotOpen(c)) =>
             /\ aborted'
             /\ mSession'[c] = mSession[c]
             /\ sess' = sess
             /\ sess'[calls'] = "none"
             /\ linked' = linked
             /\ received' = received]_vars

\* C2's case: the process is gone on a second call while the first Session is
\* open in the slot.
C2_Witness ==
    \E t \in IpcThreads :
        /\ ipc[t].pc = "aborted"
        /\ aborted
        /\ SlotOpen(ipc[t].c)
        /\ mSession[ipc[t].c] # ipc[t].call

\* C3: no Session is made or stored in the slot while the device handle is
\* null; createSession after a discovery in which every class failed does not
\* hand out a Session.
C3_NoSessionWithoutDevice ==
    /\ \A s \in Calls : sess[s] # "none" => sdev[s] # NULL
    /\ \A c \in Coords : (mDevice[c] = NULL /\ cstate[c] = "alive") => mSession[c] = NULL
    /\ \A k \in Calls : returned[k] # NULL => sdev[returned[k]] # NULL

\* C4: createSession is an atomic check-and-set on the slot: with calls that
\* overlap, two open Sessions of one coordinator never coexist, and an open
\* Session that was handed to its caller is still the one in the slot.
C4_AtomicCheckAndSet ==
    /\ \A c \in Coords : \A s1 \in OpenSessionsOf(c), s2 \in OpenSessionsOf(c) : s1 = s2
    /\ \A k \in Calls :
          (returned[k] # NULL /\ sess[returned[k]] = "open")
             => mSession[owner[returned[k]]] = returned[k]

\* The coordinator thisPtr designates exists and its slot is empty or holds a
\* closed Session (thisPtr may also be null).
NothingToRouteTo(p) ==
    IF p = NULL THEN TRUE
    ELSE IF cstate[p] = "dead" THEN FALSE
    ELSE IF mSession[p] = NULL THEN TRUE
    ELSE sess[mSession[p]] = "closed"

\* C5: a notification that finds no Session, or finds the Session closed, is
\* dropped: the invocation ends there, nothing is handed to any Session, no
\* state changes and the process goes on.
C5_DropIsNoOp ==
    [][\A n \in NotifyThreads :
          (nt[n].pc = "check" /\ nt'[n] # nt[n] /\ NothingToRouteTo(nt[n].thisPtr)) =>
             /\ nt'[n].pc = "idle"
             /\ invLog'[nt[n].inv].outcome = "dropped"
             /\ received' = received
             /\ UNCHANGED <<mSession, sessVars, coordVars, ipcVars, propsOut, aborted, crashed>>]_vars

\* C5's case: a notification was dropped because the Session it found was closed.
C5_Witness ==
    \E i \in DOMAIN invLog :
        /\ invLog[i].outcome = "dropped"
        /\ ~invLog[i].stale
        /\ invLog[i].seen # NULL
        /\ \A s \in Calls : received[s] = <<>>
        /\ Running

\* The deliveries of notification i to Session s, as positions in received[s].
DeliveriesTo(i, s) == {j \in 1..Len(received[s]) : received[s][j][1] = i}

\* Session s is open in the slot of the coordinator sInstance designates.
StillActive(s) ==
    IF sInstance = NULL THEN FALSE
    ELSE cstate[sInstance] # "dead" /\ mSession[sInstance] = s /\ sess[s] = "open"

\* C6: a notification that ran while the active Session stayed open (it was
\* the active one at entry and is still active and open once the invocation
\* is over) handed its payload, as given, exactly once to that Session and to
\* no other.
C6_ForwardedOnceUnchanged ==
    \A i \in DOMAIN invLog :
        LET e == invLog[i]
            a == e.atEntry
        IN (e.outcome # "pending" /\ a # NULL /\ StillActive(a)) =>
              /\ Cardinality(DeliveriesTo(i, a)) = 1
              /\ \A j \in DeliveriesTo(i, a) : received[a][j][2] = e.msg
              /\ \A s \in Calls \ {a} : DeliveriesTo(i, s) = {}

\* C6's case: a notification was forwarded to the Session that was active
\* throughout.
C6_Witness ==
    \E i \in DOMAIN invLog :
        /\ invLog[i].outcome = "forwarded"
        /\ invLog[i].atEntry # NULL
        /\ StillActive(invLog[i].atEntry)
        /\ invLog[i].msg = "FINGERPRINT_AUTHENTICATED"

\* The first class for which resolution, open and registration all succeed on
\* this device, NULL if there is none.
FirstOk ==
    IF \E i \in 1..NumModules : hal[i] = "ok"
    THEN CHOOSE i \in 1..NumModules : hal[i] = "ok" /\ \A j \in 1..(i - 1) : hal[j] # "ok"
    ELSE NULL

\* The classes discovery has to visit: up to the first that works, or all.
LastVisited == IF FirstOk = NULL THEN NumModules ELSE FirstOk

\* C7: discovery visits the classes in declared order, each once, never one
\* past the first that works; when the loop is over it has visited every class
\* up to that one, each earlier one having failed in one of the three ways,
\* and mDevice is that class's handle (null when every class failed).
C7_FirstWorkingCandidate ==
    \A c \in Coords :
        /\ Len(tried[c]) <= LastVisited
        /\ \A j \in 1..Len(tried[c]) : tried[c][j] = <<kModules[j], hal[j]>>
        /\ cstate[c] = "ctor_end" =>
              /\ Len(tried[c]) = LastVisited
              /\ mDevice[c] = FirstOk
              /\ \A j \in 1..(Len(tried[c]) - 1) :
                    tried[c][j][2] \in {"resolve_fail", "open_fail", "notify_fail"}

\* C7's case: [A: open fails, B: succeeds, C: would succeed] ends with B's
\* handle after two visits.
C7_Witness ==
    \E c \in Coords :
        /\ cstate[c] = "ctor_end"
        /\ hal[1] = "open_fail" /\ hal[2] = "ok" /\ hal[3] = "ok"
        /\ mDevice[c] = 2
        /\ tried[c] = <<(<<"fpc", "open_fail">>), (<<"fpc_fod", "ok">>)>>

\* C8: once teardown is over the device handle is null, whether close
\* returned zero or not.
C8_HandleReleasedAfterTeardown ==
    \A c \in Coords : cstate[c] = "dead" => mDevice[c] = NULL

\* The configured coordinates are all non-negative.
AllNonNegative == build.x >= 0 /\ build.y >= 0 /\ build.r >= 0

C10_OneDescriptorTwoComponents ==
    propsOut # <<>> =>
        /\ Len(propsOut) = 1
        /\ Len(propsOut[1].commonProps.componentInfo) = 2
        /\ propsOut[1].commonProps.sensorId = 0

\* C10's case: the descriptor was returned with no backend opened and a
\* Session in the slot.
C10_Witness ==
    /\ propsOut # <<>>
    /\ \E c \in Coords : cstate[c] = "alive" /\ mDevice[c] = NULL /\ SlotOpen(c)

\* ---------------------------------------------------------------------- C11
\* C11: a getSensorProps call has no side effects. A step that writes the
\* output of getSensorProps leaves the device handles, the session slots, the
\* open/closed status of every Session and sInstance as they were. (A later
\* call writes the same output again and changes nothing at all.)
C11_GetSensorPropsFrame ==
    [][propsOut' # propsOut => UNCHANGED <<mDevice, mSession, sess, sInstance>>]_vars

\* getSensorProps has answered on a coordinator whose slot holds a closed Session
\* and whose device handle is set.
C11_Witness ==
    /\ propsOut # <<>>
    /\ \E c \in Coords :
          /\ cstate[c] = "alive"
          /\ mDevice[c] # NULL
          /\ sInstance = c
          /\ mSession[c] # NULL
          /\ sess[mSession[c]] = "closed"

\* ---------------------------------------------------------------------- C12
\* C12: the test of line 154 and the forward of line 158 are two steps. Every
\* notification that was forwarded through a live coordinator passed the test
\* on a Session that was open then; when the Session that received it was
\* closed at the forward, the closure came between the two steps. The witness
\* is that interleaving.
C12_ClosedTargetOnlyByRace ==
    \A i \in 1..Len(invLog) :
        (invLog[i].outcome = "forwarded" /\ ~invLog[i].stale)
            => /\ invLog[i].seen # NULL
               /\ invLog[i].seenOpen
               /\ \E s \in Calls : DeliveriesTo(i, s) # {}

\* A notification passed the test on an open Session, the Session was closed,
\* and the closed Session then received the notification.
C12_Witness ==
    \E i \in 1..Len(invLog) :
        /\ invLog[i].outcome = "forwarded"
        /\ ~invLog[i].stale
        /\ invLog[i].seenOpen
        /\ ~invLog[i].targetOpen
        /\ sess[invLog[i].seen] = "closed"
        /\ DeliveriesTo(i, invLog[i].seen) # {}

\* ---------------------------------------------------------------------- C13
\* C13: the destructor does not clear sInstance. While the coordinator that
\* was constructed last is destroyed and none has been constructed after it,
\* sInstance still designates it; a notification that enters in that window
\* reads that coordinator (not nullptr), so it does not leave by the
\* "thisPtr == nullptr" test, and what it does next is a read through the
\* destroyed object.
C13_InstanceOutlivesCoordinator ==
    /\ \A c \in Coords : (cstate[c] = "dead" /\ Newest = c) => sInstance = c
    /\ \A i \in 1..Len(invLog) :
          invLog[i].newestState = "dead"
              => /\ invLog[i].via # NULL
                 /\ invLog[i].via = invLog[i].newest
                 /\ invLog[i].outcome # "pending" => invLog[i].stale

\* A notification entered after the destruction and was handed to the Session
\* found in the destroyed coordinator's slot.
C13_Witness ==
    \E i \in 1..Len(invLog) :
        /\ invLog[i].newestState = "dead"
        /\ cstate[invLog[i].via] = "dead"
        /\ sInstance = invLog[i].via
        /\ invLog[i].stale
        /\ invLog[i].outcome = "forwarded"
        /\ \E s \in Calls : owner[s] = invLog[i].via /\ DeliveriesTo(i, s) # {}

\* ---------------------------------------------------------------------- C14
\* C14: a discovery attempt that fails retains nothing. Once the loop is left,
\* the backend devices the coordinator has open are exactly the one mDevice
\* designates (none if mDevice is null), and only an open device holds the
\* notification sink.
C14_FailedAttemptLeavesNothing ==
    \A c \in Coords :
        cstate[c] \in {"ctor_end", "alive"}
            => /\ devOpen[c] = (IF mDevice[c] = NULL THEN {} ELSE {mDevice[c]})
               /\ sinks[c] \subseteq devOpen[c]

\* ---------------------------------------------------------------------- C15
\* C15: common.close is called at most once on a coordinator, and only by the
\* destructor: never before the coordinator is destroyed, once when it is
\* destroyed with the handle discovery produced, not at all when discovery
\* produced none. From the end of the constructor to the destructor mDevice
\* is the handle of the first class that works, whatever calls are served.
C15_CloseOnceAtTeardown ==
    \A c \in Coords :
        /\ Len(closeLog[c]) <= 1
        /\ cstate[c] # "dead" => closeLog[c] = <<>>
        /\ cstate[c] = "dead" => Len(closeLog[c]) = (IF FirstOk = NULL THEN 0 ELSE 1)
        /\ cstate[c] = "alive" => mDevice[c] = FirstOk

\* A coordinator that served a createSession call and a notification was
\* destroyed, and close was called once on its handle.
C15_Witness ==
    \E c \in Coords :
        /\ cstate[c] = "dead"
        /\ FirstOk # NULL
        /\ Len(closeLog[c]) = 1
        /\ \E s \in Calls : owner[s] = c /\ returned[s] # NULL
        /\ Len(invLog) > 0

\* ---------------------------------------------------------------------- C16
\* C16: once the Session in the slot is closed, the next createSession call
\* passes the CHECK and its Session takes the slot; a notification whose test
\* of line 154 finds the new Session in the slot is handed to no Session made
\* before it (with calls served one at a time, a Session made earlier has a
\* smaller call number).
C16_ReplacedSessionGetsNothing ==
    /\ [][\A t \in IpcThreads, c \in Coords :
            (/\ Entered(c)
             /\ ipc[t].pc = "idle"
             /\ ipc'[t].pc # "idle"
             /\ ipc'[t].c = c
             /\ mSession[c] # NULL
             /\ sess[mSession[c]] = "closed")
                => /\ ~aborted'
                   /\ ipc'[t].pc = "make"]_vars
    /\ [][\A t \in IpcThreads :
            (ipc[t].pc = "make" /\ ipc'[t].pc = "out")
                => /\ mSession'[ipc[t].c] = ipc[t].call
                   /\ sess'[ipc[t].call] = "open"]_vars
    /\ [](\A i \in 1..Len(invLog), s \in Calls :
            (/\ ~invLog[i].stale
             /\ invLog[i].seen # NULL
             /\ DeliveriesTo(i, s) # {})
                => s >= invLog[i].seen)

\* The first Session was closed, a second call returned a new Session, and a
\* notification tested after that was handed to the new Session and not to the
\* first.
C16_Witness ==
    \E s1 \in Calls, s2 \in Calls, i \in 1..Len(invLog) :
        /\ s1 < s2
        /\ owner[s1] = owner[s2]
        /\ sess[s1] = "closed"
        /\ returned[s2] = s2
        /\ mSession[owner[s2]] = s2
        /\ invLog[i].seen = s2
        /\ invLog[i].outcome = "forwarded"
        /\ DeliveriesTo(i, s2) # {}
        /\ DeliveriesTo(i, s1) = {}

\* ---------------------------------------------------------------------- C17
\* C17: the Session a createSession call has returned carries the death link
\* of that call's callback; a slot whose Session is closed passes the CHECK of
\* the next call; and, death notifications being delivered fairly, an open
\* Session whose callback's remote side is gone is closed in the end (unless
\* the process has ended first).
C17_DeathClosesSession ==
    /\ [](\A k \in Calls : returned[k] # NULL => k \in linked[returned[k]])
    /\ [](\A c \in Coords :
            (mSession[c] # NULL /\ sess[IF mSession[c] = NULL THEN 1 ELSE mSession[c]] = "closed")
                => SlotFree(c))
    /\ \A s \in Calls : (sess[s] = "open" /\ cbDead[s]) ~> (sess[s] = "closed" \/ ~Running)

\* The remote side of the first Session's callback died, the Session was
\* closed by the death link, and a second call returned a new open Session.
C17_Witness ==
    \E s1 \in Calls, s2 \in Calls :
        /\ s1 < s2
        /\ cbDead[s1]
        /\ s1 \in linked[s1]
        /\ sess[s1] = "closed"
        /\ owner[s1] = owner[s2]
        /\ returned[s2] = s2
        /\ s2 \in linked[s2]
        /\ sess[s2] = "open"
        /\ ~aborted

\* ---------------------------------------------------------------------- C18
\* C18: a notification that arrives while the constructor runs is dropped.
\* sInstance designates the coordinator from the constructor's first statement
\* on, before any class is opened, so no backend can hold the sink while
\* sInstance is null and every notification reads a non-null thisPtr; until
\* the constructor has returned the slot is empty; and the test of line 154,
\* made on a coordinator under construction, ends the notification with
\* nothing handed to any Session.
C18_DroppedDuringConstruction ==
    /\ [](\A c \in Coords :
            /\ cstate[c] \in {"ctor", "ctor_end"} => (sInstance = c /\ mSession[c] = NULL)
            /\ (devOpen[c] # {} \/ sinks[c] # {} \/ tried[c] # <<>>) => sInstance # NULL)
    /\ [](\A i \in 1..Len(invLog) : invLog[i].via # NULL)
    /\ [][\A n \in NotifyThreads :
            (/\ nt[n].pc = "check"
             /\ nt'[n].pc # "check"
             /\ cstate[IF nt[n].thisPtr = NULL THEN 1 ELSE nt[n].thisPtr] \in {"ctor", "ctor_end"})
                => /\ nt'[n].pc = "idle"
                   /\ invLog'[nt[n].inv].outcome = "dropped"
                   /\ received' = received
                   /\ mSession' = mSession
                   /\ ~crashed']_vars

\* The backend raised an event after its sink was registered and before the
\* constructor returned; the event was dropped on the empty slot.
C18_Witness ==
    \E c \in Coords, i \in 1..Len(invLog) :
        /\ cstate[c] \in {"ctor", "ctor_end"}
        /\ sinks[c] # {}
        /\ invLog[i].via = c
        /\ invLog[i].outcome = "dropped"
        /\ invLog[i].seen = NULL
        /\ \A s \in Calls : received[s] = <<>>

\* ---------------------------------------------------------------------- C19
\* C19: notifications go through the coordinator constructed last. sInstance
\* is that coordinator from the first statement of its constructor; a
\* notification reads it on entry, whichever backend raised the event; and a
\* Session that is handed the notification belongs to the coordinator that
\* was the last constructed when the notification entered, never to an
\* earlier one, open Session or not.
C19_RoutedThroughNewest ==
    /\ sInstance = Newest
    /\ \A i \in 1..Len(invLog) : invLog[i].via = invLog[i].newest
    /\ \A i \in 1..Len(invLog), s \in Calls :
          DeliveriesTo(i, s) # {} => owner[s] = invLog[i].newest

\* Two coordinators are alive, each with an open Session and a backend that
\* holds the sink; an event that entered after the second was constructed was
\* handed to the second's Session, and the first's Session has received
\* nothing.
C19_Witness ==
    \E c1 \in Coords, c2 \in Coords, i \in 1..Len(invLog) :
        /\ c1 # c2
        /\ ctorSeq = <<c1, c2>>
        /\ cstate[c1] = "alive"
        /\ cstate[c2] = "alive"
        /\ sinks[c1] # {}
        /\ SlotOpen(c1)
        /\ SlotOpen(c2)
        /\ invLog[i].newest = c2
        /\ invLog[i].outcome = "forwarded"
        /\ DeliveriesTo(i, mSession[c2]) # {}
        /\ received[mSession[c1]] = <<>>
====
